---- MODULE Spec2Model ----
(***************************************************************************)
(* A model of the lrserver LiveReload server: the connection registry      *)
(* (Server.conns), the broadcast entry points Server.Reload / Server.Alert *)
(* and Server.newConn from server.go, together with the per-connection     *)
(* state machine and the registry operations, which server.go only calls.  *)
(***************************************************************************)
EXTENDS Integers, Sequences, FiniteSets, TLC

\* ------------------------------------------------------------------ bounds
MaxConns == 2
MaxCalls == 2
MaxReg == 4

Conns == 1..MaxConns
\* Each caller makes one Reload or Alert call; the call's id is the caller's.
Callers == 1..MaxCalls
RegConns == 1..MaxReg
Files == {"a"}
Msgs == {"m"}

\* ------------------------------------------------------- program constants
\* make(chan string): the reload and alert queues are unbuffered
\* (make(chan string, 1) would give each one slot).
ChanCapBuffered == 0 + 1
ChanCapQueue == 0 + 2
ChanCap == 0

DefaultName == "LiveReload"
ServerProtocol == "official-7"
Protocols == {"official-6", "official-7"}

VARIABLES
    state,        \* connection -> Absent | Connecting | AwaitingHandshake | Live | Closing | Closed
    handshake,    \* connection -> conn.handshake
    conns,        \* Server.conns, the registry
    socket,       \* connection -> frames the server has written to the socket
    sockOpen,     \* connection -> the socket is held open by the process
    writing,      \* connection -> command taken from a queue and not yet written
    reloadChan,   \* connection -> buffer of conn.reloadChan
    alertChan,    \* connection -> buffer of conn.alertChan
    firstFrame,   \* connection -> command of the first inbound frame
    closeReason,  \* connection -> why it entered Closing
    enq,          \* connection -> ids of the calls whose send on it completed, in order
    pc,           \* caller -> new | range | blocked | done
    call,         \* caller -> the Reload/Alert call it makes
    target,       \* caller -> connection whose channel it is parked on (0: none)
    visited,      \* caller -> entries the for-range loop has yielded or moved past
    atStart,      \* caller -> calls returned and connections Closed when its call began
    fatal,        \* the Go runtime has thrown a fatal error
    liveCSS,      \* Server.liveCSS, the live CSS preference
    regTrace      \* last registry operations (registry specification only)

vars == <<state, handshake, conns, socket, sockOpen, writing, reloadChan,
          alertChan, firstFrame, closeReason, enq, pc, call, target,
          visited, atStart, fatal, liveCSS, regTrace>>

connVars == <<state, handshake, socket, sockOpen, writing, firstFrame, closeReason>>
chanVars == <<reloadChan, alertChan, enq>>
callerVars == <<pc, call, target, visited, atStart>>

\* ------------------------------------------------------------ message codec
NoCmd == [op |-> "none", chan |-> "none", val |-> "", id |-> 0]

\* Outbound frames. arg is the frame's serverName, path or message; id names
\* the call a reload or alert frame comes from (0: none).
EncodeHello(serverName) ==
    [command |-> "hello", arg |-> serverName, id |-> 0, protocols |-> {ServerProtocol}]
EncodeReload(cmd, css) ==
    [command |-> "reload", arg |-> cmd.val, id |-> cmd.id, liveCSS |-> css]
EncodeAlert(cmd) == [command |-> "alert", arg |-> cmd.val, id |-> cmd.id]
Encode(cmd, css) ==
    IF cmd.chan = "reload" THEN EncodeReload(cmd, css) ELSE EncodeAlert(cmd)

\* Inbound frames: a hello with a list of protocols, another command, or a
\* payload that does not decode.
InFrames ==
    {[json |-> TRUE, command |-> "hello", protocols |-> P] : P \in SUBSET Protocols}
    \cup {[json |-> TRUE, command |-> "url", protocols |-> {}],
          [json |-> FALSE, command |-> "malformed", protocols |-> {}]}

ValidHelloAny(f) == f.json
ValidHelloUnversioned(f) == f.json /\ f.command = "hello"
ValidHello(f) == f.json /\ f.command = "hello" /\ ServerProtocol \in f.protocols

\* ----------------------------------------------------------------- registry
addNothing(cs, c) == cs
add(cs, c) == cs \cup {c}

removeOrLast(cs, c) ==
    IF c \in cs \/ cs = {} THEN cs \ {c}
    ELSE cs \ {CHOOSE x \in cs : \A y \in cs : y <= x}
remove(cs, c) == cs \ {c}

\* --------------------------------------------------------------------- Init
Init ==
    /\ state = [c \in Conns |-> "Absent"]
    /\ handshake = [c \in Conns |-> FALSE]
    /\ conns = {}
    /\ socket = [c \in Conns |-> <<>>]
    /\ sockOpen = [c \in Conns |-> FALSE]
    /\ writing = [c \in Conns |-> NoCmd]
    /\ reloadChan = [c \in Conns |-> <<>>]
    /\ alertChan = [c \in Conns |-> <<>>]
    /\ firstFrame = [c \in Conns |-> "none"]
    /\ closeReason = [c \in Conns |-> "none"]
    /\ enq = [c \in Conns |-> <<>>]
    /\ pc = [b \in Callers |-> "new"]
    /\ call = [b \in Callers |-> NoCmd]
    /\ target = [b \in Callers |-> 0]
    /\ visited = [b \in Callers |-> {}]
    /\ atStart = [b \in Callers |-> [before |-> {}, closed |-> {}]]
    /\ fatal = FALSE
    /\ liveCSS = TRUE
    /\ regTrace = <<>>

\* ------------------------------------------------------------ Server.newConn
\* Callers inside their for-range loop over s.conns.
Ranging == {b \in Callers : pc[b] \in {"range", "blocked"}}

\* c := &conn{handshake: false, reloadChan: make(chan string), ...};
\* s.conns.add(c); go c.start()
\* An entry added while a loop is running is either still to be yielded by
\* that loop or already behind its position (S: the loops that skip it).
NewConnNoAdd(c, S) ==
    /\ ~fatal
    /\ state[c] = "Absent"
    /\ \A d \in Conns : d < c => state[d] # "Absent"
    /\ S \subseteq Ranging
    /\ state' = [state EXCEPT ![c] = "Connecting"]
    /\ handshake' = [handshake EXCEPT ![c] = FALSE]
    /\ sockOpen' = [sockOpen EXCEPT ![c] = TRUE]
    /\ reloadChan' = [reloadChan EXCEPT ![c] = <<>>]
    /\ alertChan' = [alertChan EXCEPT ![c] = <<>>]
    /\ conns' = addNothing(conns, c)
    /\ visited' = [b \in Callers |-> IF b \in S THEN visited[b] \cup {c} ELSE visited[b]]
    /\ UNCHANGED <<socket, writing, firstFrame, closeReason, enq, pc, call,
                   target, atStart, fatal, liveCSS, regTrace>>

\* handshake: true in the struct literal would create the connection as
\* already handshaken.
NewConnHandshaken(c, S) ==
    /\ ~fatal
    /\ state[c] = "Absent"
    /\ \A d \in Conns : d < c => state[d] # "Absent"
    /\ S \subseteq Ranging
    /\ state' = [state EXCEPT ![c] = "Connecting"]
    /\ handshake' = [handshake EXCEPT ![c] = TRUE]
    /\ sockOpen' = [sockOpen EXCEPT ![c] = TRUE]
    /\ reloadChan' = [reloadChan EXCEPT ![c] = <<>>]
    /\ alertChan' = [alertChan EXCEPT ![c] = <<>>]
    /\ conns' = add(conns, c)
    /\ visited' = [b \in Callers |-> IF b \in S THEN visited[b] \cup {c} ELSE visited[b]]
    /\ UNCHANGED <<socket, writing, firstFrame, closeReason, enq, pc, call,
                   target, atStart, fatal, liveCSS, regTrace>>

NewConn(c, S) ==
    /\ ~fatal
    /\ state[c] = "Absent"
    /\ \A d \in Conns : d < c => state[d] # "Absent"
    /\ S \subseteq Ranging
    /\ state' = [state EXCEPT ![c] = "Connecting"]
    /\ handshake' = [handshake EXCEPT ![c] = FALSE]
    /\ sockOpen' = [sockOpen EXCEPT ![c] = TRUE]
    /\ reloadChan' = [reloadChan EXCEPT ![c] = <<>>]
    /\ alertChan' = [alertChan EXCEPT ![c] = <<>>]
    /\ conns' = add(conns, c)
    /\ visited' = [b \in Callers |-> IF b \in S THEN visited[b] \cup {c} ELSE visited[b]]
    /\ UNCHANGED <<socket, writing, firstFrame, closeReason, enq, pc, call,
                   target, atStart, fatal, liveCSS, regTrace>>

\* ------------------------------------------------- connection state machine
\* Connecting -> AwaitingHandshake: the connection's own unit of execution starts.
Start(c) ==
    /\ ~fatal
    /\ state[c] = "Connecting"
    /\ state' = [state EXCEPT ![c] = "AwaitingHandshake"]
    /\ UNCHANGED <<handshake, conns, socket, sockOpen, writing, firstFrame,
                   closeReason, chanVars, callerVars, fatal, liveCSS, regTrace>>

\* AwaitingHandshake: the first inbound frame decides between Live and Closing.
Handshake(c, f) ==
    /\ ~fatal
    /\ state[c] = "AwaitingHandshake"
    /\ firstFrame' = [firstFrame EXCEPT ![c] = f.command]
    /\ IF ValidHello(f)
       THEN /\ socket' = [socket EXCEPT ![c] = Append(@, EncodeHello(DefaultName))]
            /\ handshake' = [handshake EXCEPT ![c] = TRUE]
            /\ state' = [state EXCEPT ![c] = "Live"]
            /\ UNCHANGED closeReason
       ELSE /\ state' = [state EXCEPT ![c] = "Closing"]
            /\ closeReason' = [closeReason EXCEPT ![c] = "protocol"]
            /\ UNCHANGED <<socket, handshake>>
    /\ UNCHANGED <<conns, sockOpen, writing, chanVars, callerVars, fatal, liveCSS, regTrace>>

\* Live: a well-formed inbound command is ignored, a malformed payload ends
\* the connection. (A loop that took every command but hello after the
\* handshake for a violation would end the connection on a url command too.)
InboundStrict(c, f) ==
    /\ ~fatal
    /\ state[c] = "Live"
    /\ IF f.json /\ f.command = "hello"
       THEN UNCHANGED <<state, closeReason>>
       ELSE /\ state' = [state EXCEPT ![c] = "Closing"]
            /\ closeReason' = [closeReason EXCEPT ![c] = "protocol"]
    /\ UNCHANGED <<handshake, conns, socket, sockOpen, writing, firstFrame,
                   chanVars, callerVars, fatal, liveCSS, regTrace>>

Inbound(c, f) ==
    /\ ~fatal
    /\ state[c] = "Live"
    /\ IF f.json
       THEN UNCHANGED <<state, closeReason>>
       ELSE /\ state' = [state EXCEPT ![c] = "Closing"]
            /\ closeReason' = [closeReason EXCEPT ![c] = "protocol"]
    /\ UNCHANGED <<handshake, conns, socket, sockOpen, writing, firstFrame,
                   chanVars, callerVars, fatal, liveCSS, regTrace>>

\* A read error or the client going away.
ReadError(c) ==
    /\ ~fatal
    /\ state[c] \in {"AwaitingHandshake", "Live"}
    /\ state' = [state EXCEPT ![c] = "Closing"]
    /\ closeReason' = [closeReason EXCEPT ![c] = "transport"]
    /\ UNCHANGED <<handshake, conns, socket, sockOpen, writing, firstFrame,
                   chanVars, callerVars, fatal, liveCSS, regTrace>>

\* The states in which the connection's loop serves its queues.
ServingEarly(c) == state[c] \in {"AwaitingHandshake", "Live"}
Serving(c) == state[c] = "Live"

\* The connection's loop is at its multiplexed wait on the queues.
CanReceive(c) == Serving(c) /\ writing[c] = NoCmd

ChanBuf(c, ch) == IF ch = "reload" THEN reloadChan[c] ELSE alertChan[c]

\* Callers parked in a send on channel ch of connection c.
Parked(c, ch) == {b \in Callers : pc[b] = "blocked" /\ target[b] = c /\ call[b].chan = ch}

\* The loop receives from one of its two queues: the head of the buffer, or,
\* on an empty buffer, the value of a parked sender, who is released.
Transmit(c, ch) ==
    /\ ~fatal
    /\ CanReceive(c)
    /\ IF ChanBuf(c, ch) # <<>>
       THEN /\ writing' = [writing EXCEPT ![c] = Head(ChanBuf(c, ch))]
            /\ IF Parked(c, ch) # {}
               THEN \E b \in Parked(c, ch) :
                        /\ pc' = [pc EXCEPT ![b] = "range"]
                        /\ target' = [target EXCEPT ![b] = 0]
                        /\ IF ch = "reload"
                           THEN /\ reloadChan' = [reloadChan EXCEPT ![c] = Append(Tail(@), call[b])]
                                /\ UNCHANGED alertChan
                           ELSE /\ alertChan' = [alertChan EXCEPT ![c] = Append(Tail(@), call[b])]
                                /\ UNCHANGED reloadChan
                        /\ enq' = [enq EXCEPT ![c] = Append(@, call[b].id)]
               ELSE /\ IF ch = "reload"
                       THEN /\ reloadChan' = [reloadChan EXCEPT ![c] = Tail(@)]
                            /\ UNCHANGED alertChan
                       ELSE /\ alertChan' = [alertChan EXCEPT ![c] = Tail(@)]
                            /\ UNCHANGED reloadChan
                    /\ UNCHANGED <<pc, target, enq>>
       ELSE \E b \in Parked(c, ch) :
                /\ writing' = [writing EXCEPT ![c] = call[b]]
                /\ pc' = [pc EXCEPT ![b] = "range"]
                /\ target' = [target EXCEPT ![b] = 0]
                /\ enq' = [enq EXCEPT ![c] = Append(@, call[b].id)]
                /\ UNCHANGED <<reloadChan, alertChan>>
    /\ UNCHANGED <<state, handshake, conns, socket, sockOpen, firstFrame,
                   closeReason, call, visited, atStart, fatal, liveCSS, regTrace>>

\* The pending command is serialized and written to the socket.
WriteOk(c) ==
    /\ ~fatal
    /\ Serving(c)
    /\ writing[c] # NoCmd
    /\ socket' = [socket EXCEPT ![c] = Append(@, Encode(writing[c], liveCSS))]
    /\ writing' = [writing EXCEPT ![c] = NoCmd]
    /\ UNCHANGED <<state, handshake, conns, sockOpen, firstFrame, closeReason,
                   chanVars, callerVars, fatal, liveCSS, regTrace>>

\* The write fails: the command is dropped and the connection closes.
WriteErr(c) ==
    /\ ~fatal
    /\ Serving(c)
    /\ writing[c] # NoCmd
    /\ state' = [state EXCEPT ![c] = "Closing"]
    /\ closeReason' = [closeReason EXCEPT ![c] = "transport"]
    /\ writing' = [writing EXCEPT ![c] = NoCmd]
    /\ UNCHANGED <<handshake, conns, socket, sockOpen, firstFrame,
                   chanVars, callerVars, fatal, liveCSS, regTrace>>

\* Closing -> Closed: release the socket, deregister, abandon what is queued.
Close(c) ==
    /\ ~fatal
    /\ state[c] = "Closing"
    /\ state' = [state EXCEPT ![c] = "Closed"]
    /\ sockOpen' = [sockOpen EXCEPT ![c] = FALSE]
    /\ conns' = remove(conns, c)
    /\ writing' = [writing EXCEPT ![c] = NoCmd]
    /\ reloadChan' = [reloadChan EXCEPT ![c] = <<>>]
    /\ alertChan' = [alertChan EXCEPT ![c] = <<>>]
    /\ UNCHANGED <<handshake, socket, firstFrame, closeReason, enq,
                   callerVars, fatal, liveCSS, regTrace>>

\* ------------------------------------------------- Server.Reload, Server.Alert
\* A call begins: the for-range loop over s.conns starts. op is the method
\* called, ch the channel its loop body sends on, v its argument.
Begin(b, op, ch, v) ==
    /\ ~fatal
    /\ pc[b] = "new"
    /\ \A a \in Callers : a < b => pc[a] # "new"
    /\ call' = [call EXCEPT ![b] = [op |-> op, chan |-> ch, val |-> v, id |-> b]]
    /\ pc' = [pc EXCEPT ![b] = "range"]
    /\ atStart' = [atStart EXCEPT ![b] =
                       [before |-> {k \in Callers : pc[k] = "done"},
                        closed |-> {c \in Conns : state[c] = "Closed"}]]
    /\ UNCHANGED <<connVars, conns, chanVars, target, visited, fatal, liveCSS, regTrace>>

\* Reload: conn.reloadChan <- file, for every registered connection.
ReloadOnAlertChan(b, file) == Begin(b, "Reload", "alert", file)
Reload(b, file) == Begin(b, "Reload", "reload", file)

\* Alert: conn.alertChan <- msg, for every registered connection.
Alert(b, msg) == Begin(b, "Alert", "alert", msg)

\* The entries the for-range loop over s.conns can still yield.
RangeCandidatesAgain(b) == conns
RangeCandidatesStale(b) == {c \in Conns : state[c] # "Absent"} \ visited[b]
RangeCandidates(b) == conns \ visited[b]

\* for conn := range s.conns { conn.<chan> <- value }: the loop yields the
\* next connection and the caller sends on its channel; the send completes at
\* once into a free buffer slot and parks the caller otherwise.
RangeSend(b) ==
    /\ ~fatal
    /\ pc[b] = "range"
    /\ \E c \in RangeCandidates(b) :
        /\ visited' = [visited EXCEPT ![b] = @ \cup {c}]
        /\ IF Len(ChanBuf(c, call[b].chan)) < ChanCap
           THEN /\ IF call[b].chan = "reload"
                   THEN /\ reloadChan' = [reloadChan EXCEPT ![c] = Append(@, call[b])]
                        /\ UNCHANGED alertChan
                   ELSE /\ alertChan' = [alertChan EXCEPT ![c] = Append(@, call[b])]
                        /\ UNCHANGED reloadChan
                /\ enq' = [enq EXCEPT ![c] = Append(@, call[b].id)]
                /\ UNCHANGED <<pc, target>>
           ELSE /\ pc' = [pc EXCEPT ![b] = "blocked"]
                /\ target' = [target EXCEPT ![b] = c]
                /\ UNCHANGED chanVars
    /\ UNCHANGED <<connVars, conns, call, atStart, fatal, liveCSS, regTrace>>

\* The loop ends once no entry is left to yield.
Return(b) ==
    /\ ~fatal
    /\ pc[b] = "range"
    /\ RangeCandidates(b) = {}
    /\ pc' = [pc EXCEPT ![b] = "done"]
    /\ visited' = [visited EXCEPT ![b] = {}]
    /\ UNCHANGED <<connVars, conns, chanVars, call, target, atStart, fatal, liveCSS, regTrace>>

\* The for-range loop reads the map with no lock while newConn or a closing
\* connection writes it: the runtime may throw "concurrent map iteration and
\* map write", which ends the process and with it every socket.
Fatal ==
    /\ ~fatal
    /\ \E b \in Callers : pc[b] = "range"
    /\ \E c \in Conns :
        \/ state[c] = "Closing"
        \/ state[c] = "Absent" /\ \A d \in Conns : d < c => state[d] # "Absent"
    /\ fatal' = TRUE
    /\ sockOpen' = [c \in Conns |-> FALSE]
    /\ UNCHANGED <<state, handshake, conns, socket, writing, firstFrame,
                   closeReason, chanVars, callerVars, liveCSS, regTrace>>

\* --------------------------------------------------------- Server.SetLiveCSS
\* s.liveCSS = n  (s.liveCSS = !n would store the opposite preference)
SetLiveCSSInverted(n) ==
    /\ ~fatal
    /\ liveCSS' = ~n
    /\ UNCHANGED <<connVars, conns, chanVars, callerVars, fatal, regTrace>>

SetLiveCSS(n) ==
    /\ ~fatal
    /\ liveCSS' = n
    /\ UNCHANGED <<connVars, conns, chanVars, callerVars, fatal, regTrace>>

\* --------------------------------------------------------------------- Next
Next ==
    \/ \E c \in Conns, S \in SUBSET Callers : NewConn(c, S)
    \/ \E c \in Conns : Start(c)
    \/ \E c \in Conns, f \in InFrames : Handshake(c, f)
    \/ \E c \in Conns, f \in InFrames : Inbound(c, f)
    \/ \E c \in Conns : ReadError(c)
    \/ \E c \in Conns, ch \in {"reload", "alert"} : Transmit(c, ch)
    \/ \E c \in Conns : WriteOk(c)
    \/ \E c \in Conns : WriteErr(c)
    \/ \E c \in Conns : Close(c)
    \/ \E b \in Callers, file \in Files : Reload(b, file)
    \/ \E b \in Callers, msg \in Msgs : Alert(b, msg)
    \/ \E b \in Callers : RangeSend(b)
    \/ \E b \in Callers : Return(b)
    \/ Fatal

\* The server as constructed by New, serving under that configuration.
Spec == Init /\ [][Next]_vars

\* Every unit of execution the program itself runs is scheduled: a started
\* connection's loop takes its steps, and a caller inside Reload/Alert goes
\* on with its loop. What clients send, and when, is not the program's.
SchedSpec ==
    /\ Spec
    /\ \A c \in Conns :
           /\ WF_vars(Start(c))
           /\ WF_vars(Transmit(c, "reload"))
           /\ WF_vars(Transmit(c, "alert"))
           /\ WF_vars(WriteOk(c) \/ WriteErr(c))
           /\ WF_vars(Close(c))
    /\ \A b \in Callers : WF_vars(RangeSend(b)) /\ WF_vars(Return(b))

\* The same with the live CSS preference set at any time, also while a
\* broadcast is in flight.
ConfNext ==
    \/ Next
    \/ \E n \in BOOLEAN : SetLiveCSS(n)

ConfSpec == Init /\ [][ConfNext]_vars

\* A connection in Closing runs its own unit of execution, which the
\* scheduler does not starve: it reaches Closed.
FairSpec == Spec /\ \A c \in Conns : WF_vars(Close(c))

\* ------------------------------------------------- N handshaken connections
\* The state Spec reaches when every connection has been accepted and has
\* completed its handshake, before any Reload/Alert call.
FanInit ==
    /\ state = [c \in Conns |-> "Live"]
    /\ handshake = [c \in Conns |-> TRUE]
    /\ conns = Conns
    /\ socket = [c \in Conns |-> <<EncodeHello(DefaultName)>>]
    /\ sockOpen = [c \in Conns |-> TRUE]
    /\ writing = [c \in Conns |-> NoCmd]
    /\ reloadChan = [c \in Conns |-> <<>>]
    /\ alertChan = [c \in Conns |-> <<>>]
    /\ firstFrame = [c \in Conns |-> "hello"]
    /\ closeReason = [c \in Conns |-> "none"]
    /\ enq = [c \in Conns |-> <<>>]
    /\ pc = [b \in Callers |-> "new"]
    /\ call = [b \in Callers |-> NoCmd]
    /\ target = [b \in Callers |-> 0]
    /\ visited = [b \in Callers |-> {}]
    /\ atStart = [b \in Callers |-> [before |-> {}, closed |-> {}]]
    /\ fatal = FALSE
    /\ liveCSS = TRUE
    /\ regTrace = <<>>

\* Every step of Next but the arrival and handshake of new connections.
FanNext ==
    \/ \E c \in Conns, f \in InFrames : Inbound(c, f)
    \/ \E c \in Conns : ReadError(c)
    \/ \E c \in Conns, ch \in {"reload", "alert"} : Transmit(c, ch)
    \/ \E c \in Conns : WriteOk(c)
    \/ \E c \in Conns : WriteErr(c)
    \/ \E c \in Conns : Close(c)
    \/ \E b \in Callers, file \in Files : Reload(b, file)
    \/ \E b \in Callers, msg \in Msgs : Alert(b, msg)
    \/ \E b \in Callers : RangeSend(b)
    \/ \E b \in Callers : Return(b)
    \/ Fatal

FanSpec == FanInit /\ [][FanNext]_vars

\* ------------------------------------------------------ registry operations
\* The registry on its own: any set of connections, and add and remove
\* applied to it in any order, the last two applications being recorded.
RegInit ==
    /\ conns \in SUBSET RegConns
    /\ regTrace = <<>>
    /\ state = [c \in Conns |-> "Absent"]
    /\ handshake = [c \in Conns |-> FALSE]
    /\ socket = [c \in Conns |-> <<>>]
    /\ sockOpen = [c \in Conns |-> FALSE]
    /\ writing = [c \in Conns |-> NoCmd]
    /\ reloadChan = [c \in Conns |-> <<>>]
    /\ alertChan = [c \in Conns |-> <<>>]
    /\ firstFrame = [c \in Conns |-> "none"]
    /\ closeReason = [c \in Conns |-> "none"]
    /\ enq = [c \in Conns |-> <<>>]
    /\ pc = [b \in Callers |-> "new"]
    /\ call = [b \in Callers |-> NoCmd]
    /\ target = [b \in Callers |-> 0]
    /\ visited = [b \in Callers |-> {}]
    /\ atStart = [b \in Callers |-> [before |-> {}, closed |-> {}]]
    /\ fatal = FALSE
    /\ liveCSS = TRUE

LastTwo(t) == IF Len(t) > 2 THEN Tail(t) ELSE t

RegAdd(c) ==
    /\ conns' = add(conns, c)
    /\ regTrace' = LastTwo(Append(regTrace,
                       [op |-> "add", c |-> c, before |-> conns, after |-> add(conns, c)]))
    /\ UNCHANGED <<connVars, chanVars, callerVars, fatal, liveCSS>>

RegRemove(c) ==
    /\ conns' = remove(conns, c)
    /\ regTrace' = LastTwo(Append(regTrace,
                       [op |-> "remove", c |-> c, before |-> conns, after |-> remove(conns, c)]))
    /\ UNCHANGED <<connVars, chanVars, callerVars, fatal, liveCSS>>

RegNext ==
    \/ \E c \in RegConns : RegAdd(c)
    \/ \E c \in RegConns : RegRemove(c)

RegSpec == RegInit /\ [][RegNext]_vars

\* ------------------------------------------------------------------ helpers
\* Positions of the frames of call b on the socket of connection c.
FramesOf(b, c) == {i \in 1..Len(socket[c]) : socket[c][i].id = b}

\* Ids of the reload/alert frames written on the socket of c, in order.
IsCommand(f) == f.command # "hello"
Written(c) == SelectSeq(socket[c], IsCommand)

\* A reload/alert frame is appended to the socket of c in this step.
WritesCommand(c) ==
    /\ Len(socket'[c]) = Len(socket[c]) + 1
    /\ socket'[c][Len(socket'[c])].command \in {"reload", "alert"}

\* -------------------------------------------------------------------- claims
\* C1: no reload or alert frame is written to a connection's socket before
\* that connection's handshake has completed, although the connection is in
\* the registry, and so a target of broadcasts, from its creation.
HandshakeGating ==
    [][\A c \in Conns : WritesCommand(c) =>
            /\ handshake[c]
            /\ socket[c] # <<>>
            /\ socket[c][1] = EncodeHello(DefaultName)]_vars

\* A broadcast has reached a registered connection that has not completed its
\* handshake (the caller is parked on it, nothing has been written), while
\* another connection, handshake complete, has had the frame written.
HandshakeGatingWitness ==
    \E b \in Callers, c, d \in Conns :
        /\ pc[b] = "blocked" /\ target[b] = c /\ c \in conns
        /\ state[c] = "AwaitingHandshake" /\ ~handshake[c] /\ socket[c] = <<>>
        /\ handshake[d] /\ FramesOf(b, d) # {}

\* C2: starting from N Live connections, a call Reload(f) that has returned
\* has put exactly one frame on the socket of every connection that is still
\* Live and has written what it took, that frame being reload with path f; no
\* socket ever carries two frames of one call; and a connection that was
\* Closed when the call began carries none.
FanOut ==
    \A b \in Callers : call[b].op = "Reload" =>
        \A c \in Conns :
            /\ Cardinality(FramesOf(b, c)) <= 1
            /\ \A i \in FramesOf(b, c) :
                   socket[c][i].command = "reload" /\ socket[c][i].arg = call[b].val
            /\ (pc[b] = "done" /\ state[c] = "Live" /\ writing[c] = NoCmd
                    /\ reloadChan[c] = <<>> /\ alertChan[c] = <<>>)
                   => Cardinality(FramesOf(b, c)) = 1
            /\ c \in atStart[b].closed => FramesOf(b, c) = {}

\* Reload(f) has returned with all N connections still Live, each socket
\* carrying its frame.
FanOutWitness ==
    \E b \in Callers :
        /\ call[b].op = "Reload" /\ pc[b] = "done"
        /\ \A c \in Conns : state[c] = "Live" /\ Cardinality(FramesOf(b, c)) = 1

\* C3: the reload/alert frames on a connection's socket follow the order in
\* which the sends on that connection completed (its two queues
\* notwithstanding), and if one call returned before another began, the
\* frame of the first precedes the frame of the second.
PerConnectionOrder ==
    \A c \in Conns :
        /\ Len(Written(c)) <= Len(enq[c])
        /\ \A i \in 1..Len(Written(c)) : Written(c)[i].id = enq[c][i]
        /\ \A a, b \in Callers : \A i \in FramesOf(a, c), j \in FramesOf(b, c) :
               a \in atStart[b].before => i < j

\* Reload returned before Alert was called, and one socket carries the reload
\* frame followed by the alert frame.
PerConnectionOrderWitness ==
    \E c \in Conns, a, b \in Callers :
        /\ a \in atStart[b].before
        /\ call[a].op = "Reload" /\ call[b].op = "Alert"
        /\ \E i \in FramesOf(a, c), j \in FramesOf(b, c) :
               /\ i < j
               /\ socket[c][i].command = "reload"
               /\ socket[c][j].command = "alert"

\* C4: no caller of Reload/Alert is parked in a send on a connection that has
\* reached Closed, whose loop will never receive again.
NoCallerParkedOnClosed ==
    \A b \in Callers : pc[b] = "blocked" => state[target[b]] # "Closed"

\* C5: a Closed connection is not in the registry, and a call that begins
\* after the connection closed is never parked on it, completes no send on
\* it and has no frame on its socket.
RegistryConsistency ==
    \A c \in Conns :
        /\ state[c] = "Closed" => c \notin conns
        /\ \A b \in Callers : c \in atStart[b].closed =>
               /\ ~(pc[b] = "blocked" /\ target[b] = c)
               /\ FramesOf(b, c) = {}
               /\ \A i \in 1..Len(enq[c]) : enq[c][i] # b

\* A call that began after one connection had closed has returned, having
\* delivered its frame to another connection.
RegistryConsistencyWitness ==
    \E b \in Callers, c, d \in Conns :
        /\ c \in atStart[b].closed
        /\ pc[b] = "done"
        /\ FramesOf(b, d) # {}

\* C6: a caller of Reload/Alert is never held up by a registered connection
\* whose loop is not ready to receive (busy in a socket write, or dead and
\* about to close) while another Live connection still waits for the frame
\* behind it.
NotStalledByUnready ==
    \A b \in Callers, c, d \in Conns :
        ~ /\ pc[b] = "blocked" /\ target[b] = c
          /\ c \in conns /\ ~CanReceive(c)
          /\ (writing[c] # NoCmd \/ state[c] = "Closing")
          /\ d \in RangeCandidates(b) /\ state[d] = "Live"

RegistryMembership ==
    /\ [](\A c \in Conns : c \in conns <=> state[c] \notin {"Absent", "Closed"})
    /\ [][\A c \in Conns :
            /\ (c \notin conns /\ c \in conns') =>
                   (state[c] = "Absent" /\ state'[c] = "Connecting")
            /\ (c \in conns /\ c \notin conns') =>
                   (state[c] # "Closed" /\ state'[c] = "Closed")
            /\ state[c] = "Closed" => state'[c] = "Closed"]_vars

\* One connection has been added and removed again, another is still a member.
RegistryMembershipWitness ==
    \E c, d \in Conns :
        /\ state[c] = "Closed" /\ c \notin conns
        /\ state[d] = "Live" /\ d \in conns

\* C9: the registry is not written (no add, no remove) while a Reload/Alert
\* loop is iterating it.
IterationExcludesWrites ==
    [][(\E b \in Callers : pc[b] \in {"range", "blocked"}) => conns' = conns]_vars

\* C10: removing a connection that is not in the registry leaves the
\* registry as it was, so the second of two removals of one connection
\* changes neither its contents nor its size; a removal takes out the
\* connection and nothing else.
IdempotentRemoval ==
    /\ \A i \in 1..Len(regTrace) :
           regTrace[i].op = "remove" =>
               /\ regTrace[i].after = {x \in regTrace[i].before : x # regTrace[i].c}
               /\ regTrace[i].c \notin regTrace[i].before =>
                      /\ regTrace[i].after = regTrace[i].before
                      /\ Cardinality(regTrace[i].after) = Cardinality(regTrace[i].before)
    /\ (Len(regTrace) = 2 /\ regTrace[1].op = "remove" /\ regTrace[2].op = "remove"
            /\ regTrace[1].c = regTrace[2].c) =>
           /\ regTrace[2].after = regTrace[1].after
           /\ Cardinality(regTrace[2].after) = Cardinality(regTrace[1].after)
           /\ conns = regTrace[1].after

\* A member was removed, then removed again, other members staying.
IdempotentRemovalWitness ==
    /\ Len(regTrace) = 2
    /\ regTrace[1].op = "remove" /\ regTrace[2].op = "remove"
    /\ regTrace[1].c = regTrace[2].c
    /\ regTrace[1].c \in regTrace[1].before
    /\ regTrace[2].after = regTrace[1].after
    /\ conns # {}

\* C11: a protocol violation or transport failure on connection A changes A
\* alone: the step that takes A to Closing or to Closed leaves the state,
\* the handshake flag and the registry membership of every other connection
\* as they were; and a broadcast that starts after A has failed is not made
\* to wait on A, whose loop will never receive again, while a Live
\* connection B still waits for that broadcast's frame behind it.
ErrorIsolation ==
    [][\A a \in Conns :
          /\ ((state[a] \in {"AwaitingHandshake", "Live"} /\ state'[a] = "Closing")
                  \/ (state[a] = "Closing" /\ state'[a] = "Closed")) =>
                 \A b \in Conns \ {a} :
                     /\ state'[b] = state[b]
                     /\ handshake'[b] = handshake[b]
                     /\ (b \in conns' <=> b \in conns)
          /\ \A k \in Callers, b \in Conns \ {a} :
                 (/\ pc[k] = "range" /\ visited[k] = {}
                  /\ state[a] = "Closing" /\ closeReason[a] # "none" /\ a \in conns
                  /\ state[b] = "Live" /\ b \in conns) =>
                 ~(pc'[k] = "blocked" /\ target'[k] = a /\ b \notin visited'[k])]_vars


\* C12: a newly constructed server has live CSS on, and the preference
\* changes only by SetLiveCSS(n), to n; a reload frame is written only to a
\* socket whose client opened with hello and on which the server's hello,
\* carrying the server name and the one supported protocol, is the first
\* frame; the reload frame of a call Reload(f) has path f and the liveCSS
\* field equal to the server's preference when it is written.
ReloadPayload ==
    /\ liveCSS = TRUE
    /\ [][liveCSS' # liveCSS => \E n \in BOOLEAN : SetLiveCSS(n) /\ liveCSS' = n]_vars
    /\ [][\A c \in Conns :
            (Len(socket'[c]) = Len(socket[c]) + 1
                 /\ socket'[c][Len(socket'[c])].command = "reload") =>
                /\ firstFrame[c] = "hello"
                /\ socket[c][1] = [command |-> "hello", arg |-> "LiveReload", id |-> 0,
                                   protocols |-> {"official-7"}]
                /\ \E b \in Callers :
                       /\ call[b].op = "Reload"
                       /\ socket'[c][Len(socket'[c])] =
                              [command |-> "reload", arg |-> call[b].val, id |-> b,
                               liveCSS |-> liveCSS]
                /\ liveCSS' = liveCSS]_vars

\* After hello and the server's hello, the client has received the reload
\* frame of Reload("a") with liveCSS true, and, SetLiveCSS(false) having been
\* called in between, the reload frame of a second call with liveCSS false.
ReloadPayloadWitness ==
    \E c \in Conns :
        /\ firstFrame[c] = "hello"
        /\ Len(socket[c]) = 3
        /\ socket[c][1] = EncodeHello(DefaultName)
        /\ socket[c][2] = [command |-> "reload", arg |-> "a", id |-> 1, liveCSS |-> TRUE]
        /\ socket[c][3].command = "reload" /\ socket[c][3].liveCSS = FALSE
        /\ liveCSS = FALSE


\* C13: a connection that suffers a read error, a write error or a
\* disconnect while AwaitingHandshake or Live (it is then in Closing with a
\* transport reason) eventually is Closed, its socket released and itself
\* out of the registry.
FailureTerminates ==
    \A c \in Conns :
        (closeReason[c] = "transport") ~>
            (state[c] = "Closed" /\ ~sockOpen[c] /\ c \notin conns)


\* C14: a connection becomes Live only from AwaitingHandshake, on a hello in
\* which the client lists the server's protocol version, and in that step
\* the server's hello becomes the first frame on the socket and the
\* handshake flag is set; the flag is set exactly when the server's hello is
\* on the socket, the hello is written once and is the first frame, and a
\* Live connection has the flag set.
SuccessfulHandshake ==
    /\ [](\A c \in Conns :
            /\ state[c] = "Live" => handshake[c] /\ firstFrame[c] = "hello"
            /\ handshake[c] <=> (socket[c] # <<>> /\ socket[c][1] = EncodeHello(DefaultName))
            /\ \A i \in 1..Len(socket[c]) : socket[c][i].command = "hello" => i = 1)
    /\ [][\A c \in Conns :
            (state[c] # "Live" /\ state'[c] = "Live") =>
                /\ state[c] = "AwaitingHandshake"
                /\ ~handshake[c] /\ socket[c] = <<>>
                /\ handshake'[c] /\ socket'[c] = <<EncodeHello(DefaultName)>>
                /\ \E f \in InFrames :
                       /\ f.json /\ f.command = "hello" /\ ServerProtocol \in f.protocols
                       /\ Handshake(c, f)]_vars

\* One connection is Live after its hello exchange and has since had a
\* reload or alert frame written behind the server's hello, while another,
\* registered too, is still waiting for its client's hello.
SuccessfulHandshakeWitness ==
    \E c, d \in Conns :
        /\ state[c] = "Live" /\ handshake[c]
        /\ Len(socket[c]) = 2 /\ socket[c][1] = EncodeHello(DefaultName)
        /\ state[d] = "AwaitingHandshake" /\ ~handshake[d] /\ socket[d] = <<>>
        /\ d \in conns


\* C15: when the first frame is a well-formed hello whose protocol list
\* lacks the server's protocol version, the step that reads it writes
\* nothing, leaves the handshake flag unset and takes the connection to
\* Closing with a protocol-violation reason; and from Closing on nothing is
\* written to the socket and the flag is not set, so the socket stays empty.
IncompatibleHello ==
    /\ [][\A c \in Conns, f \in InFrames :
            (/\ state[c] = "AwaitingHandshake"
             /\ f.json /\ f.command = "hello" /\ ServerProtocol \notin f.protocols
             /\ Handshake(c, f)) =>
                /\ state'[c] = "Closing" /\ closeReason'[c] = "protocol"
                /\ socket'[c] = <<>> /\ ~handshake'[c]]_vars
    /\ [][\A c \in Conns :
            state[c] \in {"Closing", "Closed"} =>
                /\ socket'[c] = socket[c] /\ handshake'[c] = handshake[c]
                /\ state'[c] \in {"Closing", "Closed"}]_vars
    /\ [](\A c \in Conns :
            (firstFrame[c] = "hello" /\ ~handshake[c]) =>
                /\ state[c] \in {"Closing", "Closed"}
                /\ socket[c] = <<>>
                /\ closeReason[c] = "protocol")

\* A connection whose client opened with a hello the server could not
\* accept has closed, nothing written, while another, whose hello listed
\* the server's protocol, is Live.
IncompatibleHelloWitness ==
    \E c, d \in Conns :
        /\ firstFrame[c] = "hello" /\ ~handshake[c]
        /\ state[c] = "Closed" /\ socket[c] = <<>> /\ closeReason[c] = "protocol"
        /\ firstFrame[d] = "hello" /\ state[d] = "Live"


\* C16: for a Live connection, reading a well-formed inbound command (a
\* repeated hello, a url command) leaves it Live and changes neither a
\* handshake flag, nor the registry, nor any socket; a connection leaves Live
\* only for Closing, and only on a malformed payload, a read error or a
\* failed write.
InboundIgnored ==
    /\ [][\A c \in Conns, f \in InFrames :
            (state[c] = "Live" /\ f.json /\ Inbound(c, f)) =>
                /\ state'[c] = "Live"
                /\ handshake' = handshake /\ conns' = conns /\ socket' = socket]_vars
    /\ [][\A c \in Conns :
            (state[c] = "Live" /\ state'[c] # "Live") =>
                /\ state'[c] = "Closing"
                /\ handshake'[c] /\ c \in conns' /\ socket'[c] = socket[c]
                /\ \/ \E f \in InFrames : ~f.json /\ Inbound(c, f)
                   \/ ReadError(c)
                   \/ WriteErr(c)]_vars

\* A Live connection that has had a frame written can read a url command
\* and a repeated hello, and the state after reading either is the state it
\* was read in; a second connection has been ended by a malformed payload.
InboundIgnoredWitness ==
    \E c, d \in Conns :
        /\ state[c] = "Live" /\ handshake[c] /\ c \in conns /\ Len(socket[c]) = 2
        /\ \A f \in InFrames : f.json => ENABLED Inbound(c, f)
        /\ firstFrame[d] = "hello" /\ handshake[d]
        /\ state[d] = "Closing" /\ closeReason[d] = "protocol"


\* C17: the command of one Reload/Alert call is sent to a connection at most
\* once and written to its socket at most once, and only if that send
\* completed; nothing is written to the socket of a connection in Closing or
\* Closed, so what was pending when it left Live is never written; and on
\* the step to Closed what the connection still holds is dropped.
AtMostOnce ==
    /\ [](\A c \in Conns, b \in Callers :
            /\ Cardinality(FramesOf(b, c)) <= 1
            /\ Cardinality({i \in 1..Len(enq[c]) : enq[c][i] = b}) <= 1
            /\ FramesOf(b, c) # {} => \E i \in 1..Len(enq[c]) : enq[c][i] = b)
    /\ [][\A c \in Conns :
            /\ state[c] \in {"Closing", "Closed"} => socket'[c] = socket[c]
            /\ (state[c] # "Closed" /\ state'[c] = "Closed") =>
                   /\ writing'[c] = NoCmd
                   /\ reloadChan'[c] = <<>> /\ alertChan'[c] = <<>>]_vars

\* The connection took the command of a call and closed before writing it:
\* the command is gone, while another connection has that call's frame once.
AtMostOnceWitness ==
    \E b \in Callers, c, d \in Conns :
        /\ state[c] = "Closed" /\ writing[c] = NoCmd
        /\ \E i \in 1..Len(enq[c]) : enq[c][i] = b
        /\ FramesOf(b, c) = {}
        /\ Cardinality(FramesOf(b, d)) = 1


\* Commands connection c has accepted and neither written nor dropped.
Held(c) ==
    (IF writing[c] # NoCmd THEN 1 ELSE 0) + Len(reloadChan[c]) + Len(alertChan[c])

\* Callers parked in a send on either queue of connection c.
ParkedOn(c) == Parked(c, "reload") \cup Parked(c, "alert")

\* C18: the queues being unbuffered, nothing is ever stored in them and a
\* connection holds at most one command it has accepted and not yet written;
\* the sends pending on a connection are at most one per running
\* broadcaster, none of them from a call whose command the connection
\* already holds, so the undelivered commands of a connection never exceed
\* one plus the number of running broadcasters.
BoundedUndelivered ==
    \A c \in Conns :
        /\ reloadChan[c] = <<>> /\ alertChan[c] = <<>>
        /\ Held(c) <= 1
        /\ ParkedOn(c) \subseteq Ranging
        /\ \A b \in ParkedOn(c) : writing[c].id # b
        /\ Held(c) + Cardinality(ParkedOn(c)) <= 1 + Cardinality(Ranging)

\* A connection is writing the command of one call while a second
\* broadcaster is parked in its send on the same connection.
BoundedUndeliveredWitness ==
    \E c \in Conns, a, b \in Callers :
        /\ a # b
        /\ writing[c] # NoCmd /\ writing[c].id = a
        /\ b \in ParkedOn(c)
        /\ Held(c) + Cardinality(ParkedOn(c)) = 2


\* Call b is running and has sent to no connection yet, while connection c
\* is registered and has not completed its handshake.
IssuedBeforeHandshake(b, c) ==
    /\ pc[b] = "range" /\ visited[b] = {}
    /\ c \in conns /\ state[c] \in {"Connecting", "AwaitingHandshake"}

\* C19: a Reload/Alert call issued while a registered connection is still in
\* Connecting or AwaitingHandshake eventually returns, having written no
\* frame to that connection (unless the process has ended before); and a
\* connection that has not completed its handshake is ended by its client's
\* first frame or a read error only, never by a broadcast.
BroadcastBeforeHandshake ==
    /\ \A b \in Callers, c \in Conns :
           IssuedBeforeHandshake(b, c) ~>
               ((pc[b] = "done" /\ FramesOf(b, c) = {}) \/ fatal)
    /\ [][\A c \in Conns :
            (state[c] \in {"Connecting", "AwaitingHandshake"}
                 /\ state'[c] \notin {"Connecting", "AwaitingHandshake", "Live"}) =>
                \/ \E f \in InFrames : Handshake(c, f)
                \/ ReadError(c)]_vars


====
